---- MODULE Spec2Model ----
(***************************************************************************)
(* Model of the Whisper VST plugin (src/src/lib.rs): the held-note counter *)
(* driven by process_events, the AtomicFloat volume parameter shared with  *)
(* the editor, the sample loop of process and the editor life cycle.       *)
(*                                                                         *)
(* f32 values are represented exactly on a dyadic grid: the integer n      *)
(* stands for the float n / Unit.  Every float the model produces (the     *)
(* volumes, the random draws and their products) lies on that grid, where  *)
(* f32 arithmetic is exact.                                                *)
(***************************************************************************)
EXTENDS Integers, Sequences, FiniteSets, TLC

VARIABLES
    overflow_checks, \* build profile: TRUE = integer overflow panics (debug), FALSE = wraps (release)
    notes,           \* Whisper.notes : u8
    panicked,        \* the audio callback panicked (overflow check failed)
    volume,          \* WhisperParameters.volume : the 4 bytes of the AtomicU32 cell
    inner,           \* GUIWrapper.inner : "None" or "Some"
    out,             \* the host's output buffer: out[channel][frame], <<>> = not written
    vread,           \* for each sample of the current render, the cell bytes it read (<<>> = no read)
    pc,              \* audio thread: "idle", "noise" (in the sample loop of process), "done" (process returning)
    pos,             \* <<channel, frame>> of the next sample the loop writes
    ret,             \* the last host call on the parameters or the editor, and what it returned
    balance,         \* history: note-ons minus note-offs delivered, counted until off_at_zero
    off_at_zero,     \* history: a note-off was delivered while the count was 0
    last_set,        \* history: the value of the last completed write to the volume (or its default)
    on_seen,         \* history: a note-on was delivered
    written,         \* history: the volume was written since the process call in progress began
    shown            \* history: open was called, and since then neither close nor an idle that handled a close request

audio == <<notes, panicked, out, vread, pc, pos>>
history == <<balance, off_at_zero, on_seen>>
vars == <<overflow_checks, notes, panicked, volume, inner, out, vread, pc, pos, ret,
          balance, off_at_zero, last_set, on_seen, written, shown>>

(***************************************************************************)
(* Bounds.                                                                 *)
(***************************************************************************)
MaxBatch == 2        \* events per process_events call
MaxSamples == 2      \* channels * frames of one output buffer
MaxUiEvents == 2     \* window events handled by one idle call
MaxHeld == 1         \* Spec, SpecHost, SpecEvents: the count stays within MaxHeld of 0 or of 255
MaxBalance == 256    \* SpecCount: note-ons delivered in excess of note-offs

(***************************************************************************)
(* f32 and AtomicFloat.                                                     *)
(***************************************************************************)
Unit == 8

Abs(n) == IF n < 0 THEN -n ELSE n

HighBit(a) == CHOOSE k \in 0..23 : 2^k <= a /\ a < 2^(k+1)

\* f32::to_bits, as the four bytes of the word, most significant first.
to_bits(n) ==
    IF n = 0 THEN <<0, 0, 0, 0>>
    ELSE LET a    == Abs(n)
             hb   == HighBit(a)
             e    == hb - 3 + 127
             mant == (a - 2^hb) * 2^(23 - hb)
             s    == IF n < 0 THEN 1 ELSE 0
         IN  <<s * 128 + e \div 2,
               (e % 2) * 128 + mant \div 65536,
               (mant \div 256) % 256,
               mant % 256>>

\* f32::from_bits on the same four bytes.  A magnitude below the resolution of
\* the grid (exponent field under 123) reads as 0.
from_bits(b) ==
    LET s    == b[1] \div 128
        e    == (b[1] % 128) * 2 + b[2] \div 128
        mant == (b[2] % 128) * 65536 + b[3] * 256 + b[4]
        sig  == 8388608 + mant
        mag  == IF e < 123 THEN 0
                ELSE IF e >= 147 THEN sig * 2^(e - 147)
                ELSE sig \div 2^(147 - e)
    IN  IF s = 1 THEN -mag ELSE mag

\* AtomicU32::store: the cell after storing `new` over `old` (a set: the
\* store is atomic, so the only outcome is the whole new word).
\* (Faulty variant: a store that may land only the most significant byte.)
AtomicStore_torn(old, new) == {new, <<new[1], old[2], old[3], old[4]>>}
AtomicStore(old, new) == {new}

\* AtomicU32::load.
\* (Faulty variant: the audio thread reading a copy of the parameters made at
\* construction instead of the shared cell.)
AtomicLoad_initial(cell) == <<63, 128, 0, 0>>
AtomicLoad(cell) == cell

\* AtomicFloat::new / get / set.
AtomicFloat_new(value) == to_bits(value)
AtomicFloat_get(cell) == from_bits(AtomicLoad(cell))
\* (Faulty variant of set: `value as u32` stored instead of value.to_bits().)
AtomicFloat_set_cast(cell, value) ==
    AtomicStore(cell, <<0, 0, 0, (Abs(value) \div Unit) % 256>>)
AtomicFloat_set(cell, value) == AtomicStore(cell, to_bits(value))

\* WhisperParameters::default: volume 1.0.
DefaultVolume == Unit

\* f32 multiplication and subtraction on the grid.
FMul(a, b) == (a * b) \div Unit
FSub(a, b) == a - b

(***************************************************************************)
(* Inputs.                                                                  *)
(***************************************************************************)
NOTE_ON == 144
NOTE_OFF == 128
OTHER_STATUS == 145

MidiEvent(status, pitch, velocity) ==
    [type |-> "Midi", data |-> <<status, pitch, velocity>>]

SysExEvent == [type |-> "SysEx", data |-> <<>>]

\* Events a host may deliver: note-ons and note-offs of two pitches, a MIDI
\* event with another status byte (note-on on channel 2), a non-MIDI event.
EventSet ==
    {MidiEvent(NOTE_ON, 60, 100), MidiEvent(NOTE_ON, 61, 1),
     MidiEvent(NOTE_OFF, 60, 0), MidiEvent(NOTE_OFF, 62, 64),
     MidiEvent(OTHER_STATUS, 60, 100), SysExEvent}

SeqsUpTo(S, n) == UNION {[1..k -> S] : k \in 0..n}

Batches == SeqsUpTo(EventSet, MaxBatch)

\* Values a host may pass to set_parameter: any f32, here -0.5, 0, 0.25, 1, 2.
ParamValues == {-4, 0, 2, 8, 16}

\* Parameter indices a host may probe.
ParamIndices == {-1, 0, 1}

\* rand::random::<f32>() draws from [0, 1): here 0 and 0.75.
RandomValues == {0, 6}

\* Output buffer shapes <<channels, frames>>.
Shapes ==
    {s \in (0..MaxSamples) \X (0..MaxSamples) : s[1] * s[2] <= MaxSamples}

(***************************************************************************)
(* Whisper::process_events.                                                 *)
(***************************************************************************)
\* u8 += with the build profile's overflow behaviour.
add_u8(a, b, checks) ==
    IF a + b > 255
    THEN IF checks THEN [panic |-> TRUE, val |-> a]
         ELSE [panic |-> FALSE, val |-> (a + b) % 256]
    ELSE [panic |-> FALSE, val |-> a + b]

\* u8 -= with the build profile's overflow behaviour.
sub_u8(a, b, checks) ==
    IF a - b < 0
    THEN IF checks THEN [panic |-> TRUE, val |-> a]
         ELSE [panic |-> FALSE, val |-> (a - b) % 256]
    ELSE [panic |-> FALSE, val |-> a - b]

\* One iteration of the loop over events.events(); a panic ends the call.
\* (Faulty variant: the status byte matched by range, not by 144 / 128.)
handle_event_any_channel(st, ev, checks) ==
    IF st.panic THEN st
    ELSE IF ev.type = "Midi"
         THEN IF ev.data[1] >= NOTE_ON THEN add_u8(st.val, 1, checks)
              ELSE IF ev.data[1] >= NOTE_OFF THEN sub_u8(st.val, 1, checks)
              ELSE st
         ELSE st
\* (Faulty variant: a per-pitch gate, a note-off counted only for pitch 60.)
handle_event_per_pitch(st, ev, checks) ==
    IF st.panic THEN st
    ELSE IF ev.type = "Midi"
         THEN IF ev.data[1] = NOTE_ON THEN add_u8(st.val, 1, checks)
              ELSE IF ev.data[1] = NOTE_OFF /\ ev.data[2] = 60 THEN sub_u8(st.val, 1, checks)
              ELSE st
         ELSE st
handle_event(st, ev, checks) ==
    IF st.panic THEN st
    ELSE IF ev.type = "Midi"
         THEN IF ev.data[1] = NOTE_ON THEN add_u8(st.val, 1, checks)
              ELSE IF ev.data[1] = NOTE_OFF THEN sub_u8(st.val, 1, checks)
              ELSE st
         ELSE st

\* The loop over events.events(), in delivery order.
\* (Faulty variant: the batch walked from its last event to its first.)
RECURSIVE fold_events_reversed(_, _, _)
fold_events_reversed(st, batch, checks) ==
    IF batch = <<>> THEN st
    ELSE handle_event(fold_events_reversed(st, Tail(batch), checks), Head(batch), checks)

RECURSIVE fold_events(_, _, _)
fold_events(st, batch, checks) ==
    IF batch = <<>> THEN st
    ELSE fold_events(handle_event(st, Head(batch), checks), Tail(batch), checks)

\* History of a batch: g = [n, bal, zero], n the count the code holds.
is_note_on(ev) == ev.type = "Midi" /\ ev.data[1] = NOTE_ON
is_note_off(ev) == ev.type = "Midi" /\ ev.data[1] = NOTE_OFF

RECURSIVE track(_, _, _)
track(g, batch, checks) ==
    IF batch = <<>> THEN g
    ELSE LET ev   == Head(batch)
             st   == handle_event([panic |-> FALSE, val |-> g.n], ev, checks)
             zero == g.zero \/ (is_note_off(ev) /\ g.n = 0)
             g2   == [n    |-> st.val,
                      bal  |-> IF zero THEN g.bal
                               ELSE IF is_note_on(ev) THEN g.bal + 1
                               ELSE IF is_note_off(ev) THEN g.bal - 1
                               ELSE g.bal,
                      zero |-> zero]
         IN  IF st.panic THEN g2 ELSE track(g2, Tail(batch), checks)

process_events(batch) ==
    /\ pc = "idle"
    /\ ~panicked
    /\ \E st \in {fold_events([panic |-> FALSE, val |-> notes], batch, overflow_checks)} :
           /\ notes' = st.val
           /\ panicked' = st.panic
    /\ \E g \in {track([n |-> notes, bal |-> balance, zero |-> off_at_zero],
                        batch, overflow_checks)} :
           /\ balance' = g.bal
           /\ off_at_zero' = g.zero
    /\ on_seen' = (on_seen \/ \E i \in DOMAIN batch : is_note_on(batch[i]))
    /\ UNCHANGED <<overflow_checks, volume, inner, out, vread, pc, pos, last_set, written, shown>>


(***************************************************************************)
(* Whisper::process.                                                        *)
(***************************************************************************)
Buffer(shape, x) == [c \in 1..shape[1] |-> [f \in 1..shape[2] |-> x]]

\* The silent branch: every sample of every channel is set to 0.0.
\* (Faulty variant: the branch returns without writing the buffer.)
silence_skipped(shape) == Buffer(shape, <<>>)
silence(shape) == Buffer(shape, <<0>>)

\* (random::<f32>() - 0.5f32) * 2f32 * volume
\* (Faulty variant: the draw not centred by - 0.5.)
noise_sample_uncentred(r, v) == FMul(FMul(r, 2 * Unit), v)
noise_sample(r, v) == FMul(FMul(FSub(r, Unit \div 2), 2 * Unit), v)

\* The position after <<c, f>> in channel-major order, or <<>> past the end.
next_pos(buffer, p) ==
    IF p[2] < Len(buffer[p[1]]) THEN <<p[1], p[2] + 1>>
    ELSE IF p[1] < Len(buffer) THEN <<p[1] + 1, 1>>
    ELSE <<>>

\* Entry of process on a buffer of the given shape: the silent branch fills
\* the buffer and returns; otherwise the sample loop starts (it has nothing to
\* do when the buffer holds no sample).
process_begin(shape) ==
    /\ pc = "idle"
    /\ ~panicked
    /\ vread' = Buffer(shape, <<>>)
    /\ written' = FALSE
    /\ IF notes = 0
       THEN /\ out' = silence(shape)
            /\ pc' = "done"
            /\ pos' = pos
       ELSE /\ out' = Buffer(shape, <<>>)
            /\ IF shape[1] * shape[2] = 0
               THEN pc' = "done" /\ pos' = pos
               ELSE pc' = "noise" /\ pos' = <<1, 1>>
    /\ UNCHANGED <<overflow_checks, notes, panicked, volume, inner, ret, history, last_set, shown>>

\* One iteration of the inner loop: draw r, load the volume, write the sample.
process_sample(r) ==
    /\ pc = "noise"
    /\ LET c == pos[1]
           f == pos[2]
           n == next_pos(out, pos)
       IN  /\ out' = [out EXCEPT ![c][f] = <<noise_sample(r, AtomicFloat_get(volume))>>]
           /\ vread' = [vread EXCEPT ![c][f] = AtomicLoad(volume)]
           /\ IF n = <<>>
              THEN pc' = "done" /\ pos' = <<1, 1>>
              ELSE pc' = "noise" /\ pos' = n
    /\ UNCHANGED <<overflow_checks, notes, panicked, volume, inner, ret, history, last_set, written, shown>>

\* process returns: the borrow of the host's buffer ends.
\* (Faulty variant: process restoring the default volume before it returns.)
process_return_resetting_volume ==
    /\ pc = "done"
    /\ pc' = "idle"
    /\ out' = <<>>
    /\ vread' = <<>>
    /\ written' = FALSE
    /\ volume' \in AtomicFloat_set(volume, DefaultVolume)
    /\ UNCHANGED <<overflow_checks, notes, panicked, inner, pos, ret, history, last_set, shown>>

process_return ==
    /\ pc = "done"
    /\ pc' = "idle"
    /\ out' = <<>>
    /\ vread' = <<>>
    /\ written' = FALSE
    /\ UNCHANGED <<overflow_checks, notes, panicked, volume, inner, pos, ret, history, last_set, shown>>

(***************************************************************************)
(* impl PluginParameters for WhisperParameters.                             *)
(***************************************************************************)
get_parameter_label(cell, index) == IF index = 0 THEN "x" ELSE ""

Digit(d) == CASE d = 0 -> "0" [] d = 1 -> "1" [] d = 2 -> "2" [] d = 3 -> "3"
              [] d = 4 -> "4" [] d = 5 -> "5" [] d = 6 -> "6" [] d = 7 -> "7"
              [] d = 8 -> "8" [] d = 9 -> "9"

RECURSIVE Decimal(_)
Decimal(k) == IF k < 10 THEN Digit(k) ELSE Decimal(k \div 10) \o Digit(k % 10)

\* format!("{:.3}", v): sign, integer part, point, three decimals.
format_3(n) ==
    LET t == (Abs(n) * 1000) \div Unit
    IN  (IF n < 0 THEN "-" ELSE "") \o Decimal(t \div 1000) \o "."
            \o Digit((t \div 100) % 10) \o Digit((t \div 10) % 10) \o Digit(t % 10)

\* (Faulty variant: the index not matched.)
get_parameter_text_any(cell, index) == format_3(AtomicFloat_get(cell))
get_parameter_text(cell, index) ==
    IF index = 0 THEN format_3(AtomicFloat_get(cell)) ELSE ""

get_parameter_name(cell, index) == IF index = 0 THEN "volume" ELSE ""

get_parameter(cell, index) == IF index = 0 THEN AtomicFloat_get(cell) ELSE 0

\* The cells set_parameter may leave behind.
\* (Faulty variant: the index not matched.)
set_parameter_result_any(cell, index, value) == AtomicFloat_set(cell, value)
set_parameter_result(cell, index, value) ==
    IF index = 0 THEN AtomicFloat_set(cell, value) ELSE {cell}

set_parameter(index, value) ==
    /\ ~panicked
    /\ volume' \in set_parameter_result(volume, index, value)
    /\ last_set' = IF index = 0 THEN value ELSE last_set
    /\ written' = (written \/ (index = 0 /\ pc # "idle"))
    /\ UNCHANGED <<overflow_checks, audio, inner, history, shown>>

\* The read-only parameter calls: they return a value and change nothing.
read_parameter(op, index) ==
    /\ ~panicked
    /\ ret' = <<op, index,
                CASE op = "get_parameter" -> get_parameter(volume, index)
                  [] op = "get_parameter_label" -> get_parameter_label(volume, index)
                  [] op = "get_parameter_text" -> get_parameter_text(volume, index)
                  [] op = "get_parameter_name" -> get_parameter_name(volume, index)>>
    /\ UNCHANGED <<overflow_checks, audio, volume, inner, history, last_set, written, shown>>

ReadOps == {"get_parameter", "get_parameter_label", "get_parameter_text",
            "get_parameter_name"}

(***************************************************************************)
(* impl Editor for GUIWrapper.                                              *)
(***************************************************************************)
WIDTH == 400
HEIGHT == 200

\* Window events one idle call may find queued: a close request for the
\* editor window, an input during which the slider is dragged to `perc` of its
\* track (0 or 1), and an input that leaves the slider alone.
UiEventSet ==
    {[kind |-> "CloseRequested"], [kind |-> "Input"]}
        \cup {[kind |-> "Drag", perc |-> p] : p \in {0, Unit}}

UiBatches == SeqsUpTo(UiEventSet, MaxUiEvents)

\* widget::Slider::new(value, min, max).set(..): the new value when a drag
\* changed it, <<>> (None) otherwise.  The new value lies between min and max.
slider_set(value, min, max, ev) ==
    IF ev.kind = "Drag"
    THEN LET new == min + FMul(FSub(max, min), ev.perc)
         IN  IF new # value THEN <<new>> ELSE <<>>
    ELSE <<>>

\* The closure of run_return on one event; st.end is the closure's `end`, set
\* with ControlFlow::Exit, which stops the loop.
idle_event(st, ev) ==
    IF st.end THEN {st}
    ELSE IF ev.kind = "CloseRequested" THEN {[st EXCEPT !.end = TRUE]}
    ELSE LET new_volume == slider_set(AtomicFloat_get(st.cell), 0, Unit, ev)
         IN  IF new_volume # <<>>
             THEN {[st EXCEPT !.cell = c, !.set = new_volume[1], !.wrote = TRUE] :
                       c \in AtomicFloat_set(st.cell, new_volume[1])}
             ELSE {st}

RECURSIVE fold_idle(_, _)
fold_idle(sts, evs) ==
    IF evs = <<>> THEN sts
    ELSE fold_idle(UNION {idle_event(st, Head(evs)) : st \in sts}, Tail(evs))

\* idle's own `end` after run_return.  The closure is a `move` closure and
\* bool is Copy: the closure captures a copy of `end` and assigns to that copy,
\* so the variable idle tests afterwards still holds its initial false.
end_after_run_return(closure_end) == FALSE

idle(evs) ==
    /\ ~panicked
    /\ IF inner = "Some"
       THEN \E st \in fold_idle({[end |-> FALSE, cell |-> volume, set |-> last_set,
                                    wrote |-> FALSE]}, evs) :
                /\ volume' = st.cell
                /\ last_set' = st.set
                /\ written' = (written \/ (st.wrote /\ pc # "idle"))
                /\ inner' = IF end_after_run_return(st.end) THEN "None" ELSE inner
                /\ shown' = IF st.end THEN FALSE ELSE shown
       ELSE UNCHANGED <<volume, inner, last_set, written, shown>>
    /\ UNCHANGED <<overflow_checks, audio, history>>

\* (Faulty variant of close: an editor that holds the plugin and clears its
\* held-note count when it closes.)
close_clearing_notes ==
    /\ ~panicked
    /\ inner' = "None"
    /\ shown' = FALSE
    /\ notes' = 0
    /\ UNCHANGED <<overflow_checks, panicked, out, vread, pc, pos, volume, history, last_set, written>>

close ==
    /\ ~panicked
    /\ inner' = "None"
    /\ shown' = FALSE
    /\ UNCHANGED <<overflow_checks, audio, volume, history, last_set, written>>

open ==
    /\ ~panicked
    /\ inner' = "Some"
    /\ shown' = TRUE
    /\ UNCHANGED <<overflow_checks, audio, volume, history, last_set, written>>

is_open == inner = "Some"

size == IF inner = "Some" THEN <<WIDTH, HEIGHT>> ELSE <<0, 0>>

position == <<0, 0>>

EditorReadOps == {"is_open", "size", "position"}

\* The read-only editor calls.
read_editor(op) ==
    /\ ~panicked
    /\ ret' = <<op, CASE op = "is_open" -> is_open
                      [] op = "size" -> size
                      [] op = "position" -> position>>
    /\ UNCHANGED <<overflow_checks, audio, volume, inner, history, last_set, written, shown>>

(***************************************************************************)
(* Initial state: Whisper::default().                                       *)
(***************************************************************************)
Init ==
    /\ overflow_checks \in BOOLEAN
    /\ notes = 0
    /\ panicked = FALSE
    /\ volume = AtomicFloat_new(DefaultVolume)
    /\ inner = "None"
    /\ out = <<>>
    /\ vread = <<>>
    /\ pc = "idle"
    /\ pos = <<1, 1>>
    /\ ret = <<>>
    /\ balance = 0
    /\ off_at_zero = FALSE
    /\ last_set = DefaultVolume
    /\ on_seen = FALSE
    /\ written = FALSE
    /\ shown = FALSE

(***************************************************************************)
(* Specifications.                                                          *)
(***************************************************************************)
\* Counts within MaxHeld of either end of the u8 range.
HeldWindow == (0..MaxHeld) \cup ((255 - MaxHeld)..255)

\* The audio thread delivering events and rendering while the volume is
\* written concurrently by the host (set_parameter) and by the control surface
\* (idle, one window event per call).
Next ==
    \/ \E b \in Batches : process_events(b) /\ notes' \in HeldWindow /\ ret' = ret
    \/ \E s \in Shapes : process_begin(s)
    \/ \E r \in RandomValues : process_sample(r)
    \/ process_return
    \/ \E x \in ParamValues : set_parameter(0, x) /\ ret' = ret
    \/ \E ev \in UiEventSet : idle(<<ev>>) /\ ret' = ret
    \/ open /\ ret' = ret
    \/ close /\ ret' = ret

Spec == Init /\ [][Next]_vars

\* The host probing and setting parameters and driving the editor between
\* event deliveries (one event per delivery); ret logs the last call.
NextHost ==
    \/ \E ev \in EventSet :
           /\ process_events(<<ev>>)
           /\ notes' \in HeldWindow
           /\ ret' = <<"process_events", <<ev>>>>
    \/ \E i \in ParamIndices, x \in ParamValues :
           set_parameter(i, x) /\ ret' = <<"set_parameter", i, x>>
    \/ \E op \in ReadOps, i \in ParamIndices : read_parameter(op, i)
    \/ \E op \in EditorReadOps : read_editor(op)
    \/ \E evs \in UiBatches : idle(evs) /\ ret' = <<"idle", Len(evs)>>
    \/ open /\ ret' = <<"open", TRUE>>
    \/ close /\ ret' = <<"close">>

SpecHost == Init /\ [][NextHost]_vars

\* Event delivery over the whole range of the counter.
NextCount ==
    \/ \E b \in Batches : process_events(b) /\ balance' <= MaxBalance /\ ret' = ret
    \/ \E x \in ParamValues : set_parameter(0, x) /\ ret' = ret

SpecCount == Init /\ [][NextCount]_vars

\* Event delivery with the batch logged in ret, the host muting or restoring
\* the volume between deliveries.
NextEvents ==
    \/ \E b \in Batches :
           /\ process_events(b)
           /\ notes' \in HeldWindow
           /\ ret' = <<"process_events", b>>
    \/ \E x \in {0, Unit} : set_parameter(0, x) /\ ret' = <<"set_parameter", 0, x>>

SpecEvents == Init /\ [][NextEvents]_vars

\* Event delivery alone, the batch logged in ret.
NextDelivery ==
    \E b \in Batches :
        /\ process_events(b)
        /\ notes' \in HeldWindow
        /\ ret' = <<"process_events", b>>

SpecDelivery == Init /\ [][NextDelivery]_vars

\* Processing cycles: a delivery (ret logs the batch and the count it found)
\* followed by renders, the host writing the volume at any point.
CycleEvents == {MidiEvent(NOTE_ON, 60, 100), MidiEvent(NOTE_OFF, 62, 64), SysExEvent}

NextCycle ==
    \/ \E b \in SeqsUpTo(CycleEvents, MaxBatch) :
           /\ process_events(b)
           /\ notes' \in HeldWindow
           /\ ret' = <<"process_events", b, notes>>
    \/ \E s \in Shapes : process_begin(s)
    \/ \E r \in RandomValues : process_sample(r)
    \/ process_return
    \/ \E x \in {0, 2} : set_parameter(0, x) /\ ret' = ret

SpecCycle == Init /\ [][NextCycle]_vars

\* Every operation of the plugin, the parameters and the editor, the host and
\* the editor running beside the audio thread (one event per delivery, one
\* window event per idle call).
NextAll ==
    \/ \E ev \in EventSet : process_events(<<ev>>) /\ notes' \in HeldWindow /\ ret' = <<>>
    \/ \E s \in Shapes : process_begin(s)
    \/ \E r \in RandomValues : process_sample(r)
    \/ process_return
    \/ \E i \in ParamIndices, x \in {0, 2} : set_parameter(i, x) /\ ret' = <<>>
    \/ \E op \in ReadOps, i \in ParamIndices : read_parameter(op, i)
    \/ \E op \in EditorReadOps : read_editor(op)
    \/ \E ev \in UiEventSet : idle(<<ev>>) /\ ret' = <<>>
    \/ open /\ ret' = <<>>
    \/ close /\ ret' = <<>>

SpecAll == Init /\ [][NextAll]_vars

TypeOK ==
    /\ overflow_checks \in BOOLEAN
    /\ notes \in 0..255
    /\ panicked \in BOOLEAN
    /\ volume \in [1..4 -> 0..255]
    /\ inner \in {"None", "Some"}
    /\ pc \in {"idle", "noise", "done"}

(***************************************************************************)
(* Properties.                                                              *)
(***************************************************************************)
Positions(buf) == UNION {{<<c, f>> : f \in DOMAIN buf[c]} : c \in DOMAIN buf}

\* The count the specification prescribes: +1 on note-on, max(0, n - 1) on
\* note-off, unchanged otherwise.
RECURSIVE clamped_count(_, _)
clamped_count(n, batch) ==
    IF batch = <<>> THEN n
    ELSE clamped_count(
             IF is_note_on(Head(batch)) THEN n + 1
             ELSE IF is_note_off(Head(batch)) THEN (IF n = 0 THEN 0 ELSE n - 1)
             ELSE n,
             Tail(batch))

\* C1: a note-off processed while the count is 0 leaves the count at 0 and the
\* call completes normally: after any batch that stays within the u8 range the
\* count is the clamped count (note-off = max(0, count - 1)) and nothing
\* panicked, so the render that follows is gated on that count.
C1_NoteOffClampsAtZero ==
    [][\A b \in Batches :
          (process_events(b) /\ notes + Len(b) <= 255)
              => (~panicked' /\ notes' = clamped_count(notes, b))]_vars

\* C2: as long as no note-off has arrived while the count was 0, the count
\* equals the note-ons minus the note-offs delivered, however many notes are
\* held, and event delivery never aborts.
C2_CountIsOnsMinusOffs ==
    ~off_at_zero => (~panicked /\ notes = balance)

\* C3: a render made while the count is 0 writes exactly 0.0 to every sample
\* of every channel, whatever the volume and the shape of the buffer.
C3_SilentWhenNoNotes ==
    (pc = "done" /\ notes = 0) => \A p \in Positions(out) : out[p[1]][p[2]] = <<0>>

C3_Witness ==
    /\ pc = "done" /\ notes = 0
    /\ Len(out) = 2 /\ Len(out[1]) = 1
    /\ \A p \in Positions(out) : out[p[1]][p[2]] = <<0>>
    /\ AtomicFloat_get(volume) = 2 * Unit

\* C4: on the noise path (count > 0) every sample written equals
\* (r - 0.5) * 2 * v for the volume v it was scaled by and some r in [0, 1);
\* for v >= 0 it lies in [-v, v], and it is exactly 0.0 when v = 0.0.  (With
\* one volume v for the whole render this holds of every sample of the buffer.)
C4_NoiseWithinVolume ==
    \A p \in Positions(vread) :
        vread[p[1]][p[2]] # <<>> =>
            LET v == from_bits(vread[p[1]][p[2]])
                s == out[p[1]][p[2]][1]
            IN  /\ notes > 0
                /\ v >= 0 =>
                      /\ \E r \in 0..(Unit - 1) : s * Unit = (2 * r - Unit) * v
                      /\ -v <= s /\ s <= v
                      /\ v = 0 => s = 0

C4_Witness ==
    /\ pc = "done" /\ notes > 0
    /\ vread = << <<to_bits(2), to_bits(2)>> >>
    /\ out = << << <<-2>>, <<1>> >> >>

\* C5: after set_parameter(0, x) with x in [0, 1], get_parameter(0) returns
\* exactly x as long as no other write intervenes: a get_parameter(0) returns
\* the value of the latest write whenever that value is in [0, 1].
C5_RoundTrip ==
    (Len(ret) = 3 /\ ret[1] = "get_parameter" /\ ret[2] = 0
        /\ 0 <= last_set /\ last_set <= Unit) => ret[3] = last_set

C5_Witness ==
    /\ ret = <<"get_parameter", 0, 2>>
    /\ last_set = 2

\* C6: set_parameter with an index other than 0 changes neither the volume nor
\* the held-note count and does not fail; get_parameter(0) is as before.
C6_InvalidIndexNoOp ==
    [][\A i \in ParamIndices \ {0}, x \in ParamValues :
          set_parameter(i, x)
              => /\ volume' = volume
                 /\ notes' = notes
                 /\ ~panicked'
                 /\ get_parameter(volume', 0) = get_parameter(volume, 0)]_vars

C6_Witness ==
    /\ ret = <<"set_parameter", -1, 2 * Unit>>
    /\ AtomicFloat_get(volume) = 2
    /\ notes = 1

\* C7: the stored volume is within [0.0, 1.0] in every reachable state.
C7_VolumeInRange ==
    0 <= AtomicFloat_get(volume) /\ AtomicFloat_get(volume) <= Unit

\* C8: for an index other than 0, get_parameter returns 0.0 and
\* get_parameter_label, get_parameter_text and get_parameter_name return the
\* empty string, and the call changes no state.
Neutral(op) == IF op = "get_parameter" THEN 0 ELSE ""

C8_UnknownIndexNeutral ==
    [][\A op \in ReadOps, i \in ParamIndices \ {0} :
          read_parameter(op, i)
              => /\ ret'[3] = Neutral(op)
                 /\ UNCHANGED <<notes, panicked, volume, inner, out, vread, pc>>]_vars

C8_Witness ==
    /\ ret = <<"get_parameter_text", 1, "">>
    /\ AtomicFloat_get(volume) = 2 * Unit

\* C9: events that are neither note-on nor note-off are ignored: a batch has
\* the same effect as the batch with those events removed (the remaining events
\* are still processed, nothing is rejected) and the volume is unchanged.
Counted(batch) == SelectSeq(batch, LAMBDA ev : is_note_on(ev) \/ is_note_off(ev))

C9_OtherEventsIgnored ==
    [][(Len(ret') = 2 /\ ret'[1] = "process_events" /\ process_events(ret'[2]))
          => LET b  == ret'[2]
                 st == fold_events([panic |-> FALSE, val |-> notes], Counted(b),
                                   overflow_checks)
             IN  /\ notes' = st.val
                 /\ panicked' = st.panic
                 /\ Counted(b) = <<>> => (notes' = notes /\ ~panicked')
                 /\ volume' = volume]_vars

C9_Witness ==
    /\ ret = <<"process_events", <<SysExEvent, MidiEvent(NOTE_ON, 61, 1)>>>>
    /\ notes = 1
    /\ AtomicFloat_get(volume) = 0
    /\ ~panicked

\* C10: every value the audio thread reads from the volume is the whole value
\* of the latest completed write (a set_parameter or a slider change), or the
\* default when nothing was written: never a partially written word.
C10_NoTornRead ==
    [][\A r \in RandomValues :
          process_sample(r) => vread'[pos[1]][pos[2]] = to_bits(last_set)]_vars

C10_Witness ==
    /\ pc = "done"
    /\ vread = << <<to_bits(DefaultVolume), to_bits(2 * Unit)>> >>

\* The count after a batch walked in delivery order from count n (u8
\* arithmetic), and whether every intermediate count fits the u8.
delta(ev) == IF is_note_on(ev) THEN 1 ELSE IF is_note_off(ev) THEN -1 ELSE 0

RECURSIVE ordered_count(_, _)
ordered_count(n, batch) ==
    IF batch = <<>> THEN n
    ELSE ordered_count((n + delta(Head(batch))) % 256, Tail(batch))

RECURSIVE in_range(_, _)
in_range(n, batch) ==
    \/ batch = <<>>
    \/ /\ n + delta(Head(batch)) \in 0..255
       /\ in_range(n + delta(Head(batch)), Tail(batch))

Kinds(batch) == [i \in DOMAIN batch |-> delta(batch[i])]

\* C11: the events of a batch are applied in delivery order and all of them
\* before the render reads the count: a batch whose intermediate counts fit
\* the u8 completes with the count of the whole batch walked in order, and the
\* render that follows is gated on that count: fully silent when it is 0, on
\* the noise path (every sample scaled by a volume it read) when it is not.
\* So [note-on, note-off] at count 0 is followed by a silent render and
\* [note-on] at count 0 by a render on the noise path.
C11_RenderAfterWholeBatch ==
    (Len(ret) = 3 /\ ret[1] = "process_events") =>
        LET b  == ret[2]
            n0 == ret[3]
            n  == ordered_count(n0, b)
        IN  /\ in_range(n0, b) => ~panicked
            /\ ~panicked => notes = n
            /\ pc = "noise" => n > 0
            /\ pc = "done" =>
                   \A p \in Positions(out) :
                       IF n = 0 THEN out[p[1]][p[2]] = <<0>> /\ vread[p[1]][p[2]] = <<>>
                       ELSE vread[p[1]][p[2]] # <<>>
            /\ (n0 = 0 /\ Kinds(b) = <<1, -1>>) => (~panicked /\ notes = 0 /\ pc # "noise")
            /\ (n0 = 0 /\ Kinds(b) = <<1>>) => (~panicked /\ notes = 1)

C11_Witness ==
    /\ ret = <<"process_events",
               <<MidiEvent(NOTE_ON, 60, 100), MidiEvent(NOTE_OFF, 62, 64)>>, 0>>
    /\ pc = "done"
    /\ out = << <<<<0>>, <<0>>>> >>
    /\ AtomicFloat_get(volume) = 2
    /\ overflow_checks

\* C12: the held-note count is changed only by process_events: a step that
\* changes it is a delivery of events, so render, every parameter operation
\* and every editor operation (open, close, is_open, size, position, idle with
\* its slider changes) leave it as it was.
C12_CountChangedOnlyByEvents ==
    [][notes' # notes => \E ev \in EventSet : process_events(<<ev>>)]_vars

\* The count is held while the editor was opened, the slider dragged and the
\* editor closed, a render in progress.
C12_Witness ==
    /\ notes = 1
    /\ pc = "noise"
    /\ inner = "None"
    /\ last_set = 0
    /\ ret = <<"size", <<0, 0>>>>

\* C13: sound is produced only while a note is held: every render made before
\* the first note-on is delivered outputs only 0.0, whatever was written to the
\* volume, and a sample other than 0.0 is written only while the count is
\* greater than 0.
C13_SoundOnlyWhileHeld ==
    /\ (~on_seen /\ pc = "done") => \A p \in Positions(out) : out[p[1]][p[2]] = <<0>>
    /\ \A p \in Positions(out) :
           (out[p[1]][p[2]] # <<>> /\ out[p[1]][p[2]] # <<0>>) => notes > 0

\* C14: one render uses one volume value for the whole output buffer: all the
\* samples written by one process call are scaled by the same volume value,
\* even when the volume is set while process is running.
C14_OneVolumePerRender ==
    \A p \in Positions(vread), q \in Positions(vread) :
        (vread[p[1]][p[2]] # <<>> /\ vread[q[1]][q[2]] # <<>>)
            => vread[p[1]][p[2]] = vread[q[1]][q[2]]

\* C15: a volume write takes effect within one cycle: when the last write of
\* the volume (a set_parameter(0, x) or a slider change to x) completed before
\* the process call began and none followed, every sample of the call reads x
\* and is scaled by x; this holds of that call and of every later one.
C15_WriteTakesEffect ==
    ~written =>
        \A p \in Positions(vread) :
            vread[p[1]][p[2]] # <<>> =>
                /\ vread[p[1]][p[2]] = to_bits(last_set)
                /\ \E r \in RandomValues :
                       out[p[1]][p[2]] = <<noise_sample(r, last_set)>>

C15_Witness ==
    /\ ~written
    /\ pc = "done"
    /\ last_set = 2
    /\ vread = << <<to_bits(2)>>, <<to_bits(2)>> >>
    /\ out = << <<<<-2>>>>, <<<<1>>>> >>

\* The batches of the kinds of `batch`, in its order, with any payload.
\* C16: the held-note count is independent of the note payload: every batch
\* leaves the count (and the outcome of the call) that the batch of the same
\* kinds in the same order with the payloads erased leaves from the same count,
\* so two batches of the same kinds that differ in pitch and velocity bytes
\* leave the same count; a note-off decrements the count whether or not its
\* pitch is the pitch of an earlier note-on.
\* The batch with every payload erased: each event replaced by one fixed event
\* of its kind (note-on / note-off / other).
Erased(batch) ==
    [i \in DOMAIN batch |->
        IF is_note_on(batch[i]) THEN MidiEvent(NOTE_ON, 61, 1)
        ELSE IF is_note_off(batch[i]) THEN MidiEvent(NOTE_OFF, 62, 64)
        ELSE SysExEvent]

C16_PayloadIndependent ==
    [][(Len(ret') = 2 /\ ret'[1] = "process_events" /\ process_events(ret'[2]))
          => LET b  == ret'[2]
                 st == fold_events([panic |-> FALSE, val |-> notes], Erased(b),
                                   overflow_checks)
             IN  /\ Kinds(Erased(b)) = Kinds(b)
                 /\ notes' = st.val
                 /\ panicked' = st.panic
                 /\ (Len(b) = 1 /\ is_note_off(b[1]) /\ notes > 0)
                        => (notes' = notes - 1 /\ ~panicked')]_vars

\* A note-off of pitch 62 has undone a note-on of pitch 60.
C16_Witness ==
    /\ ret = <<"process_events",
               <<MidiEvent(NOTE_ON, 60, 100), MidiEvent(NOTE_OFF, 62, 64)>>>>
    /\ notes = 0
    /\ balance = 0
    /\ on_seen
    /\ ~off_at_zero
    /\ ~panicked

\* C17: the audio-processing path only reads the parameter store: no step of
\* process_events or of process (its entry, each sample, its return) changes
\* the volume, for any batch, count and buffer, so get_parameter(0) returns
\* after the step what it returned before it.
C17_AudioPathReadsOnly ==
    [][(\/ Len(ret') = 3 /\ ret'[1] = "process_events" /\ process_events(ret'[2])
        \/ \E s \in Shapes : process_begin(s)
        \/ \E r \in RandomValues : process_sample(r)
        \/ process_return)
          => /\ volume' = volume
             /\ get_parameter(volume', 0) = get_parameter(volume, 0)]_vars

\* A delivery and a whole render have run on a volume the host had set.
C17_Witness ==
    /\ ret = <<"process_events", <<MidiEvent(NOTE_ON, 60, 100)>>, 0>>
    /\ pc = "done"
    /\ vread = << <<to_bits(2), to_bits(2)>> >>
    /\ notes = 1
    /\ ~written
    /\ last_set = 2
    /\ get_parameter(volume, 0) = 2

\* C18: the editor starts closed; after any sequence of open, close and idle
\* calls is_open is true exactly when an open call happened and neither a
\* close call nor an idle call that handled a window close request happened
\* since; while closed, size is (0, 0) and idle changes neither the editor
\* state nor the volume; close on a closed editor leaves it closed and open on
\* an open editor leaves it open.
C18_EditorLifecycle ==
    [][/\ is_open = shown
       /\ is_open' = shown'
       /\ ~is_open' => size' = <<0, 0>>
       /\ (~is_open /\ \E evs \in UiBatches : idle(evs)) => UNCHANGED <<inner, volume>>
       /\ (~is_open /\ close) => ~is_open'
       /\ (is_open /\ open) => is_open']_vars

====
